---------------------------- MODULE Spec2Model ----------------------------
(***************************************************************************)
(* A model of InvestmentCalculator (src/investment_calculator.py).         *)
(*                                                                         *)
(* Numbers.  The program computes on Python floats.  The model computes    *)
(* on exact rationals: a number is a sign, a numerator and a denominator,  *)
(* the last two unbounded naturals held as little-endian sequences of      *)
(* base-1000 limbs (TLC's own integers are 32 bits wide and (101/100)^120  *)
(* does not fit).  Rounding of the binary floating-point format is not     *)
(* modelled; the exceptions Python raises (a zero divisor, math.pow of 0   *)
(* to a negative power, math.pow of a negative base to a fractional power) *)
(* are, as the field exc of every result.                                  *)
(***************************************************************************)
EXTENDS Integers, Sequences, FiniteSets, TLC

-----------------------------------------------------------------------------
(* Unbounded naturals: <<>> is 0, the most significant limb is never 0.    *)
(* Carries are settled in whole passes (BigCarry) and products by column   *)
(* sums added by halves, which keeps every recursion shallow.              *)

Limb == 10 * 100

RECURSIVE BigOfNat(_)
BigOfNat(k) == IF k = 0 THEN << >> ELSE <<k % Limb>> \o BigOfNat(k \div Limb)

RECURSIVE BigStrip(_)
BigStrip(a) ==
    IF Len(a) = 0 THEN << >>
    ELSE IF a[Len(a)] = 0 THEN BigStrip(SubSeq(a, 1, Len(a) - 1))
    ELSE a

\* one pass of carries (or borrows: \div rounds down) over the limbs of v
BigCarry(v) ==
    [i \in 1..(Len(v) + 1) |->
        (IF i <= Len(v) THEN v[i] % Limb ELSE 0)
        + (IF i > 1 THEN v[i - 1] \div Limb ELSE 0)]

RECURSIVE BigNorm(_)
BigNorm(v) ==
    IF \A i \in 1..Len(v) : v[i] >= 0 /\ v[i] < Limb
    THEN BigStrip(v)
    ELSE BigNorm(BigCarry(v))

BigAdd(a, b) ==
    LET n == IF Len(a) > Len(b) THEN Len(a) ELSE Len(b)
    IN  BigNorm([i \in 1..n |-> (IF i <= Len(a) THEN a[i] ELSE 0)
                              + (IF i <= Len(b) THEN b[i] ELSE 0)])

\* a - b for a >= b
BigSub(a, b) ==
    BigNorm([i \in 1..Len(a) |-> a[i] - (IF i <= Len(b) THEN b[i] ELSE 0)])

\* the sum of a[i] * b[k + 1 - i] over i in lo..hi, by halves
RECURSIVE BigColumn(_, _, _, _, _)
BigColumn(a, b, k, lo, hi) ==
    IF lo > hi THEN 0
    ELSE IF lo = hi THEN a[lo] * b[k + 1 - lo]
    ELSE BigColumn(a, b, k, lo, (lo + hi) \div 2)
         + BigColumn(a, b, k, (lo + hi) \div 2 + 1, hi)

BigMul(a, b) ==
    IF Len(a) = 0 \/ Len(b) = 0 THEN << >>
    ELSE BigNorm([k \in 1..(Len(a) + Len(b) - 1) |->
                    BigColumn(a, b, k,
                              IF k + 1 - Len(b) > 1 THEN k + 1 - Len(b) ELSE 1,
                              IF k < Len(a) THEN k ELSE Len(a))])

\* -1, 0, 1 as a < b, a = b, a > b
RECURSIVE BigCmpFrom(_, _, _)
BigCmpFrom(a, b, i) ==
    IF i = 0 THEN 0
    ELSE IF a[i] < b[i] THEN -1
    ELSE IF a[i] > b[i] THEN 1
    ELSE BigCmpFrom(a, b, i - 1)

BigCmp(a, b) ==
    IF a = b THEN 0
    ELSE IF Len(a) < Len(b) THEN -1
    ELSE IF Len(a) > Len(b) THEN 1
    ELSE BigCmpFrom(a, b, Len(a))

BigOne == <<1>>

-----------------------------------------------------------------------------
(* Rationals: [s |-> -1 | 0 | 1, n |-> numerator, d |-> denominator > 0].  *)
(* A value has many representations (fractions are not kept in lowest      *)
(* terms); values are compared with RatEq and RatCmp, never with =.        *)

RECURSIVE Gcd(_, _)
Gcd(a, b) == IF b = 0 THEN a ELSE Gcd(b, a % b)

Abs(a) == IF a < 0 THEN -a ELSE a

RatZero == [s |-> 0, n |-> << >>, d |-> BigOne]

RatMake(s, n, d) == IF s = 0 \/ Len(n) = 0 THEN RatZero ELSE [s |-> s, n |-> n, d |-> d]

\* the rational a/b of two TLC integers, b # 0
Rat(a, b) ==
    LET g  == Gcd(Abs(a), Abs(b))
        sa == IF a < 0 THEN -1 ELSE IF a = 0 THEN 0 ELSE 1
        sb == IF b < 0 THEN -1 ELSE 1
    IN  RatMake(sa * sb, BigOfNat(Abs(a) \div g), BigOfNat(Abs(b) \div g))

RatInt(a) == Rat(a, 1)

RatNeg(x) == [x EXCEPT !.s = -x.s]

RatMul(x, y) ==
    IF x.s = 0 \/ y.s = 0 THEN RatZero
    ELSE IF x.n = y.d THEN RatMake(x.s * y.s, y.n, x.d)
    ELSE IF y.n = x.d THEN RatMake(x.s * y.s, x.n, y.d)
    ELSE RatMake(x.s * y.s, BigMul(x.n, y.n), BigMul(x.d, y.d))

\* 1 / y for y # 0
RatInv(y) == [s |-> y.s, n |-> y.d, d |-> y.n]

\* x / y for y # 0
RatDiv(x, y) == RatMul(x, RatInv(y))

\* s * (a - b) / d as a rational, for naturals a # b
RatDifference(s, a, b, d) ==
    IF BigCmp(a, b) > 0 THEN RatMake(s, BigSub(a, b), d) ELSE RatMake(-s, BigSub(b, a), d)

\* (sx * a + sy * b) / d for signs sx, sy # 0 and naturals a, b
RatSum(sx, sy, a, b, d) ==
    IF sx = sy THEN RatMake(sx, BigAdd(a, b), d)
    ELSE IF a = b THEN RatZero
    ELSE RatDifference(sx, a, b, d)

RatAdd(x, y) ==
    IF x.s = 0 THEN y
    ELSE IF y.s = 0 THEN x
    ELSE IF x.d = y.d THEN RatSum(x.s, y.s, x.n, y.n, x.d)
    ELSE RatSum(x.s, y.s, BigMul(x.n, y.d), BigMul(y.n, x.d), BigMul(x.d, y.d))

RatSub(x, y) == RatAdd(x, RatNeg(y))

\* the sign of x - y
RatCmp(x, y) ==
    IF x.s # y.s THEN (IF x.s < y.s THEN -1 ELSE 1)
    ELSE IF x.s = 0 THEN 0
    ELSE x.s * BigCmp(BigMul(x.n, y.d), BigMul(y.n, x.d))

RatEq(x, y) == RatCmp(x, y) = 0
RatLt(x, y) == RatCmp(x, y) < 0
RatLe(x, y) == RatCmp(x, y) <= 0
RatGt(x, y) == RatCmp(x, y) > 0
RatGe(x, y) == RatCmp(x, y) >= 0

RatSquare(x) == [s |-> x.s * x.s, n |-> BigMul(x.n, x.n), d |-> BigMul(x.d, x.d)]

\* x^k for a natural k, by squaring
RECURSIVE RatPowNat(_, _)
RatPowNat(x, k) ==
    IF k = 0 THEN RatInt(1)
    ELSE IF k = 1 THEN x
    ELSE IF k % 2 = 0 THEN RatSquare(RatPowNat(x, k \div 2))
    ELSE RatMul(x, RatSquare(RatPowNat(x, k \div 2)))

-----------------------------------------------------------------------------
(* Python's arithmetic on the numbers above.                               *)

One == RatInt(1)
Hundred == RatInt(100)

\* what a call gives when it raises: the name of the exception
Raise(e) == [exc |-> e]

\* math.pow(x, k) for an integer k raises ValueError for 0 to a negative power
PowFails(x, k) == x.s = 0 /\ k < 0

\* math.pow(x, k) for an integer k, where it does not raise
MathPow(x, k) == IF k >= 0 THEN RatPowNat(x, k) ELSE RatInv(RatPowNat(x, -k))

-----------------------------------------------------------------------------
(* compound_interest                                                       *)

future_value_principal(principal, rate_per_period, total_periods) ==
    RatMul(principal, MathPow(RatAdd(One, rate_per_period), total_periods))

\* a variant that never compounds the contributions
future_value_contributions_linear(monthly_contribution, rate_per_period, total_periods) ==
    RatMul(monthly_contribution, RatInt(total_periods))

future_value_contributions(monthly_contribution, rate_per_period, total_periods) ==
    IF monthly_contribution.s > 0 /\ rate_per_period.s > 0
    THEN RatMul(monthly_contribution,
                RatDiv(RatSub(MathPow(RatAdd(One, rate_per_period), total_periods), One),
                       rate_per_period))
    ELSE RatMul(monthly_contribution, RatInt(total_periods))

\* a variant that counts one contribution, not one a period
total_invested_once(principal, monthly_contribution, total_periods) ==
    RatAdd(principal, monthly_contribution)

total_invested(principal, monthly_contribution, total_periods) ==
    RatAdd(principal, RatMul(monthly_contribution, RatInt(total_periods)))

return_percentage(total_interest, invested) ==
    IF invested.s > 0 THEN RatMul(RatDiv(total_interest, invested), Hundred) ELSE RatZero

\* the dictionary returned, from the totals and the deflator (1 + inflation)^years
compound_interest_return(total_future_value, invested, total_interest, deflator, annual_rate, years) ==
    IF deflator.s = 0 THEN Raise("ZeroDivisionError")
    ELSE [exc               |-> "none",
          future_value      |-> total_future_value,
          total_invested    |-> invested,
          total_interest    |-> total_interest,
          real_value        |-> RatDiv(total_future_value, deflator),
          return_percentage |-> return_percentage(total_interest, invested),
          annual_rate       |-> RatMul(annual_rate, Hundred),
          years             |-> years]

compound_interest_totals(total_future_value, invested, deflator, annual_rate, years) ==
    compound_interest_return(total_future_value, invested,
                             RatSub(total_future_value, invested), deflator,
                             annual_rate, years)

compound_interest_periods(self_inflation_rate, principal, annual_rate, years, monthly_contribution, rate_per_period, total_periods) ==
    IF PowFails(RatAdd(One, rate_per_period), total_periods) THEN Raise("ValueError")
    ELSE IF PowFails(RatAdd(One, self_inflation_rate), years) THEN Raise("ValueError")
    ELSE compound_interest_totals(
             RatAdd(future_value_principal(principal, rate_per_period, total_periods),
                    future_value_contributions(monthly_contribution, rate_per_period,
                                               total_periods)),
             total_invested(principal, monthly_contribution, total_periods),
             MathPow(RatAdd(One, self_inflation_rate), years),
             annual_rate, years)

\* self_inflation_rate is self.inflation_rate, the one field of the instance
compound_interest(self_inflation_rate, principal, annual_rate, years, compounds_per_year, monthly_contribution) ==
    IF compounds_per_year = 0 THEN Raise("ZeroDivisionError")
    ELSE compound_interest_periods(self_inflation_rate, principal, annual_rate, years,
                                   monthly_contribution,
                                   RatDiv(annual_rate, RatInt(compounds_per_year)),
                                   years * compounds_per_year)

-----------------------------------------------------------------------------
(* calculate_annuity_payment                                               *)

\* the payment, where no divisor is zero
annuity_payment(loan_amount, rate_per_period, total_periods, growth) ==
    IF rate_per_period.s = 0
    THEN RatDiv(loan_amount, RatInt(total_periods))
    ELSE RatDiv(RatMul(loan_amount, RatMul(rate_per_period, growth)),
                RatSub(growth, One))

annuity_return(loan_amount, years, total_periods, payment, total_paid) ==
    IF loan_amount.s = 0 THEN Raise("ZeroDivisionError")
    ELSE [exc                 |-> "none",
          monthly_payment     |-> payment,
          total_paid          |-> total_paid,
          total_interest      |-> RatSub(total_paid, loan_amount),
          loan_amount         |-> loan_amount,
          interest_percentage |-> RatMul(RatDiv(RatSub(total_paid, loan_amount),
                                                loan_amount), Hundred),
          years               |-> years]

annuity_paid(loan_amount, years, total_periods, payment) ==
    annuity_return(loan_amount, years, total_periods, payment,
                   RatMul(payment, RatInt(total_periods)))

annuity_periods(loan_amount, years, rate_per_period, total_periods, growth) ==
    IF rate_per_period.s = 0 /\ total_periods = 0 THEN Raise("ZeroDivisionError")
    ELSE IF rate_per_period.s # 0 /\ RatEq(growth, One) THEN Raise("ZeroDivisionError")
    ELSE annuity_paid(loan_amount, years, total_periods,
                      annuity_payment(loan_amount, rate_per_period, total_periods, growth))

annuity_rate(loan_amount, years, rate_per_period, total_periods) ==
    IF rate_per_period.s # 0 /\ PowFails(RatAdd(One, rate_per_period), total_periods)
    THEN Raise("ValueError")
    ELSE annuity_periods(loan_amount, years, rate_per_period, total_periods,
                         IF rate_per_period.s = 0 THEN One
                         ELSE MathPow(RatAdd(One, rate_per_period), total_periods))

calculate_annuity_payment(loan_amount, annual_rate, years, payments_per_year) ==
    IF payments_per_year = 0 THEN Raise("ZeroDivisionError")
    ELSE annuity_rate(loan_amount, years,
                      RatDiv(annual_rate, RatInt(payments_per_year)),
                      years * payments_per_year)

-----------------------------------------------------------------------------
(* calculate_required_capital, calculate_required_monthly_contribution     *)

required_capital_at(monthly_income, monthly_rate, total_months) ==
    IF monthly_rate.s = 0
    THEN [exc |-> "none", val |-> RatMul(monthly_income, RatInt(total_months))]
    ELSE IF PowFails(RatAdd(One, monthly_rate), -total_months) THEN Raise("ValueError")
    ELSE [exc |-> "none",
          val |-> RatMul(monthly_income,
                         RatDiv(RatSub(One, MathPow(RatAdd(One, monthly_rate),
                                                    -total_months)),
                                monthly_rate))]

\* a variant that takes the years for the months
calculate_required_capital_in_years(monthly_income, years, annual_return) ==
    required_capital_at(monthly_income, RatDiv(annual_return, RatInt(12)), years)

calculate_required_capital(monthly_income, years, annual_return) ==
    required_capital_at(monthly_income, RatDiv(annual_return, RatInt(12)), years * 12)

\* a variant that forgets the growth of the savings already held
needed_from_contributions_ungrown(current_savings, target_amount, growth) ==
    RatSub(target_amount, current_savings)

needed_from_contributions(current_savings, target_amount, growth) ==
    RatSub(target_amount, RatMul(current_savings, growth))

required_payment(needed, monthly_rate, total_months, growth) ==
    IF needed.s <= 0 THEN [exc |-> "none", val |-> RatZero]
    ELSE IF monthly_rate.s = 0
    THEN (IF total_months = 0 THEN Raise("ZeroDivisionError")
          ELSE [exc |-> "none", val |-> RatDiv(needed, RatInt(total_months))])
    ELSE IF RatEq(growth, One) THEN Raise("ZeroDivisionError")
    ELSE [exc |-> "none",
          val |-> RatDiv(RatMul(needed, monthly_rate), RatSub(growth, One))]

required_contribution_growth(current_savings, target_amount, monthly_rate, total_months, growth) ==
    required_payment(needed_from_contributions(current_savings, target_amount, growth),
                     monthly_rate, total_months, growth)

required_contribution_at(current_savings, target_amount, monthly_rate, total_months) ==
    IF PowFails(RatAdd(One, monthly_rate), total_months) THEN Raise("ValueError")
    ELSE required_contribution_growth(current_savings, target_amount, monthly_rate,
                                      total_months,
                                      MathPow(RatAdd(One, monthly_rate), total_months))

calculate_required_monthly_contribution(current_savings, target_amount, annual_return, years) ==
    required_contribution_at(current_savings, target_amount,
                             RatDiv(annual_return, RatInt(12)), years * 12)

-----------------------------------------------------------------------------
(* retirement_planning                                                     *)

life_expectancy == 85

\* the return after retirement: expected_return * 0.7
conservative_return(expected_return) == RatMul(expected_return, Rat(7, 10))

\* a variant that reports the signed gap
reported_shortfall_signed(shortfall) == shortfall

reported_shortfall(shortfall) == IF shortfall.s > 0 THEN shortfall ELSE RatZero

retirement_return(current_age, retirement_age, current_savings, monthly_contribution, desired_monthly_income, projected, required_capital, shortfall, required_monthly) ==
    IF required_monthly.exc # "none" THEN Raise(required_monthly.exc)
    ELSE [exc                           |-> "none",
          current_age                   |-> current_age,
          retirement_age                |-> retirement_age,
          years_to_retirement           |-> retirement_age - current_age,
          current_savings               |-> current_savings,
          monthly_contribution          |-> monthly_contribution,
          projected_retirement_savings  |-> projected,
          required_capital              |-> required_capital,
          shortfall                     |-> reported_shortfall(shortfall),
          required_monthly_contribution |-> required_monthly.val,
          desired_monthly_income        |-> desired_monthly_income,
          retirement_years              |-> life_expectancy - retirement_age]

retirement_shortfall(current_age, retirement_age, current_savings, monthly_contribution, expected_return, desired_monthly_income, projected, required_capital, shortfall) ==
    retirement_return(current_age, retirement_age, current_savings, monthly_contribution,
                      desired_monthly_income, projected, required_capital, shortfall,
                      IF shortfall.s > 0
                      THEN calculate_required_monthly_contribution(
                               current_savings, required_capital, expected_return,
                               retirement_age - current_age)
                      ELSE [exc |-> "none", val |-> monthly_contribution])

retirement_capital(current_age, retirement_age, current_savings, monthly_contribution, expected_return, desired_monthly_income, retirement_savings, required_capital) ==
    IF retirement_savings.exc # "none" THEN Raise(retirement_savings.exc)
    ELSE IF required_capital.exc # "none" THEN Raise(required_capital.exc)
    ELSE retirement_shortfall(current_age, retirement_age, current_savings,
                              monthly_contribution, expected_return,
                              desired_monthly_income, retirement_savings.future_value,
                              required_capital.val,
                              RatSub(required_capital.val,
                                     retirement_savings.future_value))

retirement_planning(self_inflation_rate, current_age, retirement_age, current_savings, monthly_contribution, expected_return, desired_monthly_income) ==
    retirement_capital(current_age, retirement_age, current_savings,
                       monthly_contribution, expected_return, desired_monthly_income,
                       compound_interest(self_inflation_rate, current_savings,
                                         expected_return, retirement_age - current_age,
                                         12, monthly_contribution),
                       calculate_required_capital(desired_monthly_income,
                                                  life_expectancy - retirement_age,
                                                  conservative_return(expected_return)))

-----------------------------------------------------------------------------
(* calculate_cagr, dividend_reinvestment                                   *)

\* (ending/beginning)^(1/years) has no rational value in general: where it has
\* none at hand the result is kept as the root it denotes, [root, of], standing
\* for (of^(1/root) - 1) * 100
cagr_of_ratio(ratio, years) ==
    IF ratio.s = 0 /\ years < 0 THEN Raise("ValueError")
    ELSE IF ratio.s < 0 /\ years \notin {1, -1} THEN Raise("ValueError")
    ELSE IF years = 1
         THEN [exc |-> "none", val |-> RatMul(RatSub(ratio, One), Hundred)]
    ELSE IF years = -1
         THEN [exc |-> "none", val |-> RatMul(RatSub(RatInv(ratio), One), Hundred)]
    ELSE IF ratio.s = 0
         THEN [exc |-> "none", val |-> RatNeg(Hundred)]
    ELSE IF RatEq(ratio, One)
         THEN [exc |-> "none", val |-> RatZero]
    ELSE [exc |-> "none", val |-> [root |-> years, of |-> ratio]]

calculate_cagr(beginning_value, ending_value, years) ==
    IF years = 0 \/ beginning_value.s = 0 THEN [exc |-> "none", val |-> RatZero]
    ELSE cagr_of_ratio(RatDiv(ending_value, beginning_value), years)

\* a variant that grows the price before it reinvests the dividends
dividend_growth_first(year, current_value, dividends, price_appreciation) ==
    [year      |-> year,
     value     |-> RatAdd(RatMul(current_value, RatAdd(One, price_appreciation)),
                          dividends),
     dividends |-> dividends]

\* one pass of the loop body, given the year's dividends: they are reinvested,
\* then the price grows
dividend_growth(year, current_value, dividends, price_appreciation) ==
    [year      |-> year,
     value     |-> RatMul(RatAdd(current_value, dividends),
                          RatAdd(One, price_appreciation)),
     dividends |-> dividends]

dividend_step(year, current_value, dividend_yield, price_appreciation) ==
    dividend_growth(year, current_value, RatMul(current_value, dividend_yield),
                    price_appreciation)

\* yearly_data with the pass for year appended to the passes before it
yearly_append(year, before, initial_investment, dividend_yield, price_appreciation) ==
    Append(before,
           dividend_step(year,
                         IF year = 1 THEN initial_investment ELSE before[year - 1].value,
                         dividend_yield, price_appreciation))

\* yearly_data after the passes for years 1..year
RECURSIVE yearly_data(_, _, _, _)
yearly_data(year, initial_investment, dividend_yield, price_appreciation) ==
    IF year <= 0 THEN << >>
    ELSE yearly_append(year,
                       yearly_data(year - 1, initial_investment, dividend_yield,
                                   price_appreciation),
                       initial_investment, dividend_yield, price_appreciation)

\* total_dividends after the first k passes
RECURSIVE total_dividends(_, _)
total_dividends(steps, k) ==
    IF k = 0 THEN RatZero ELSE RatAdd(total_dividends(steps, k - 1), steps[k].dividends)

dividend_return(initial_investment, steps, current_value, cagr) ==
    IF initial_investment.s = 0 THEN Raise("ZeroDivisionError")
    ELSE IF cagr.exc # "none" THEN Raise(cagr.exc)
    ELSE [exc                |-> "none",
          initial_investment |-> initial_investment,
          final_value        |-> current_value,
          total_dividends    |-> total_dividends(steps, Len(steps)),
          total_return       |-> RatSub(current_value, initial_investment),
          return_percentage  |-> RatMul(RatDiv(RatSub(current_value, initial_investment),
                                               initial_investment), Hundred),
          cagr               |-> cagr.val,
          yearly_breakdown   |-> steps]

dividend_final(initial_investment, years, steps, current_value) ==
    dividend_return(initial_investment, steps, current_value,
                    calculate_cagr(initial_investment, current_value, years))

dividend_loop(initial_investment, years, steps) ==
    dividend_final(initial_investment, years, steps,
                   IF Len(steps) = 0 THEN initial_investment
                   ELSE steps[Len(steps)].value)

dividend_reinvestment(initial_investment, dividend_yield, years, price_appreciation) ==
    dividend_loop(initial_investment, years,
                  yearly_data(years, initial_investment, dividend_yield,
                              price_appreciation))

-----------------------------------------------------------------------------
(* dollar_cost_averaging                                                   *)

base_price_start == 100

price_change(price_volatility, month) ==
    IF month < Len(price_volatility) THEN price_volatility[month + 1] ELSE RatZero

current_price(base_price, change) ==
    RatMul(base_price, RatAdd(One, RatDiv(change, Hundred)))

\* a variant that leaves base_price at what it was
next_base_price_kept(base_price, price) == base_price

\* base_price for the next pass
next_base_price(base_price, price) == price

\* the entry of monthly_data for month (counted from 0) and the state it leaves
dca_entry(month, before, monthly_investment, price, shares_bought, total_shares) ==
    [exc        |-> "none",
     base_price |-> next_base_price(before.base_price, price),
     data       |-> Append(before.data,
                           [month         |-> month + 1,
                            price         |-> price,
                            shares_bought |-> shares_bought,
                            total_shares  |-> total_shares,
                            invested      |-> RatAdd(IF month = 0 THEN RatZero
                                                     ELSE before.data[month].invested,
                                                     monthly_investment),
                            value         |-> RatMul(total_shares, price)])]

dca_buy(month, before, monthly_investment, price, shares_bought) ==
    dca_entry(month, before, monthly_investment, price, shares_bought,
              RatAdd(IF month = 0 THEN RatZero ELSE before.data[month].total_shares,
                     shares_bought))

dca_price(month, before, monthly_investment, price) ==
    IF price.s = 0 THEN Raise("ZeroDivisionError")
    ELSE dca_buy(month, before, monthly_investment, price,
                 RatDiv(monthly_investment, price))

\* the pass for month (counted from 0), after the passes before it
dca_step(month, before, monthly_investment, price_volatility) ==
    IF before.exc # "none" THEN before
    ELSE dca_price(month, before, monthly_investment,
                   current_price(before.base_price,
                                 price_change(price_volatility, month)))

\* base_price and monthly_data after the passes for months 0..months-1
RECURSIVE monthly_data(_, _, _)
monthly_data(months, monthly_investment, price_volatility) ==
    IF months <= 0
    THEN [exc |-> "none", base_price |-> RatInt(base_price_start), data |-> << >>]
    ELSE dca_step(months - 1,
                  monthly_data(months - 1, monthly_investment, price_volatility),
                  monthly_investment, price_volatility)

dca_return(loop, total_shares, invested, final_value) ==
    [exc               |-> "none",
     total_invested    |-> invested,
     final_value       |-> final_value,
     total_shares      |-> total_shares,
     average_price     |-> IF total_shares.s > 0
                           THEN RatDiv(invested, total_shares) ELSE RatZero,
     total_return      |-> RatSub(final_value, invested),
     return_percentage |-> return_percentage(RatSub(final_value, invested), invested),
     monthly_breakdown |-> loop.data]

dca_totals(loop, total_shares, invested) ==
    dca_return(loop, total_shares, invested, RatMul(total_shares, loop.base_price))

dca_loop(loop) ==
    IF loop.exc # "none" THEN Raise(loop.exc)
    ELSE dca_totals(loop,
                    IF Len(loop.data) = 0 THEN RatZero
                    ELSE loop.data[Len(loop.data)].total_shares,
                    IF Len(loop.data) = 0 THEN RatZero
                    ELSE loop.data[Len(loop.data)].invested)

dollar_cost_averaging(monthly_investment, years, price_volatility) ==
    dca_loop(monthly_data(years * 12, monthly_investment, price_volatility))

-----------------------------------------------------------------------------
(* rule_of_72, generate_investment_report                                  *)

\* float('inf')
Infinity == [inf |-> TRUE]

rule_of_72(annual_return) ==
    IF annual_return.s = 0 THEN Infinity
    ELSE RatDiv(RatInt(72), RatMul(annual_return, Hundred))

\* the report is held as the numbers its lines print, in the order of the lines;
\* the layout of the text is not modelled
report_lines(self_inflation_rate, initial_amount, monthly_contribution, annual_return, years, res) ==
    IF res.exc # "none" THEN Raise(res.exc)
    ELSE [exc    |-> "none",
          report |-> <<initial_amount, monthly_contribution,
                       RatMul(annual_return, Hundred), RatInt(years),
                       res.future_value, res.total_invested, res.total_interest,
                       res.return_percentage,
                       RatMul(self_inflation_rate, Hundred), res.real_value,
                       rule_of_72(annual_return)>>]

generate_investment_report(self_inflation_rate, initial_amount, monthly_contribution, annual_return, years) ==
    report_lines(self_inflation_rate, initial_amount, monthly_contribution,
                 annual_return, years,
                 compound_interest(self_inflation_rate, initial_amount, annual_return,
                                   years, 12, monthly_contribution))

-----------------------------------------------------------------------------
(* The calculator and its caller.                                          *)

VARIABLES
    inflation_rate,   \* self.inflation_rate
    queue,            \* the calls the caller has yet to make, in order
    made,             \* how many calls the caller has made so far
    call,             \* the last call made: its method (op) and arguments
    result            \* what that call returned, or the exception it raised

vars == <<inflation_rate, queue, made, call, result>>

\* __init__: self.inflation_rate = 0.04
default_inflation_rate == Rat(4, 100)

MaxYears    == 2    \* the longest horizon of a closed-form call, in years
MaxDcaYears == 1    \* the longest dollar-cost-averaging run, in years
MaxVolLen   == 2    \* the longest price_volatility list
MaxCalls    == 2    \* the longest sequence of calls on one instance

Rates == {Rat(-12, 100), RatZero, Rat(6, 100), Rat(12, 100), Rat(1, 2)}

CompoundInterestCalls ==
    [op : {"compound_interest"},
     principal : {RatZero, RatInt(1000), RatInt(100000)},
     annual_rate : Rates,
     years : 0..MaxYears \cup {10},
     compounds_per_year : {0, 1, 12},
     monthly_contribution : {RatZero, RatInt(5000)}]

AnnuityCalls ==
    [op : {"calculate_annuity_payment"},
     loan_amount : {RatZero, RatInt(1000), RatInt(120000)},
     annual_rate : {RatZero, Rat(12, 100)},
     years : 0..MaxYears,
     payments_per_year : {0, 1, 12}]

\* ages around life_expectancy, so that both horizons stay a few years long
RetirementCalls ==
    [op : {"retirement_planning"},
     current_age : {life_expectancy - 3, life_expectancy - 1},
     retirement_age : (life_expectancy - 2)..(life_expectancy + 1),
     current_savings : {RatZero, RatInt(1000)},
     monthly_contribution : {RatZero, RatInt(100)},
     expected_return : {Rat(-12, 100), RatZero, Rat(6, 5)},
     desired_monthly_income : {RatZero, RatInt(100), RatInt(10000)}]

RequiredCapitalCalls ==
    [op : {"calculate_required_capital"},
     monthly_income : {RatZero, RatInt(1000)},
     years : -1..MaxYears,
     annual_return : {RatInt(-12), RatZero, Rat(84, 100)}]

RequiredContributionCalls ==
    [op : {"calculate_required_monthly_contribution"},
     current_savings : {RatZero, RatInt(1000)},
     target_amount : {RatZero, RatInt(5000)},
     annual_return : {RatInt(-12), RatZero, Rat(6, 5)},
     years : 0..MaxYears]

DividendCalls ==
    [op : {"dividend_reinvestment"},
     initial_investment : {RatZero, RatInt(1000)},
     dividend_yield : {RatZero, Rat(5, 100)},
     years : 0..MaxYears,
     price_appreciation : {RatInt(-1), RatZero, Rat(7, 100)}]

CagrCalls ==
    [op : {"calculate_cagr"},
     beginning_value : {RatZero, RatInt(1000)},
     ending_value : {RatInt(-1000), RatZero, RatInt(1000), RatInt(1210)},
     years : -1..MaxYears]

PriceChanges == {RatInt(10), RatInt(-10), RatInt(-100)}

DcaCalls ==
    [op : {"dollar_cost_averaging"},
     monthly_investment : {RatZero, RatInt(100)},
     years : 0..MaxDcaYears,
     price_volatility : UNION {[1..n -> PriceChanges] : n \in 0..MaxVolLen}]

RuleOf72Calls == [op : {"rule_of_72"}, annual_return : Rates]

ReportCalls ==
    [op : {"generate_investment_report"},
     initial_amount : {RatZero, RatInt(1000)},
     monthly_contribution : {RatZero, RatInt(100)},
     annual_return : Rates,
     years : 0..1]

Calls ==
    CompoundInterestCalls \cup AnnuityCalls \cup RetirementCalls
    \cup RequiredCapitalCalls \cup RequiredContributionCalls \cup DividendCalls
    \cup CagrCalls \cup DcaCalls \cup RuleOf72Calls \cup ReportCalls

NoCall == [op |-> "none"]

\* a fresh instance and a caller about to make one call
Init ==
    /\ inflation_rate = default_inflation_rate
    /\ queue \in {<<c>> : c \in Calls}
    /\ made = 0
    /\ call = NoCall
    /\ result = [exc |-> "none"]

Calling(op) == queue # << >> /\ Head(queue).op = op

\* the caller's bookkeeping of a call that has come back
Made == call' = Head(queue) /\ queue' = Tail(queue) /\ made' = made + 1

\* a variant that keeps the rate of the call in the instance
CompoundInterestKeepsRate ==
    /\ Calling("compound_interest")
    /\ LET c == Head(queue)
       IN  result' = compound_interest(inflation_rate, c.principal, c.annual_rate,
                                       c.years, c.compounds_per_year,
                                       c.monthly_contribution)
    /\ Made
    /\ inflation_rate' = Head(queue).annual_rate

CompoundInterest ==
    /\ Calling("compound_interest")
    /\ LET c == Head(queue)
       IN  result' = compound_interest(inflation_rate, c.principal, c.annual_rate,
                                       c.years, c.compounds_per_year,
                                       c.monthly_contribution)
    /\ Made
    /\ UNCHANGED inflation_rate

CalculateAnnuityPayment ==
    /\ Calling("calculate_annuity_payment")
    /\ LET c == Head(queue)
       IN  result' = calculate_annuity_payment(c.loan_amount, c.annual_rate, c.years,
                                               c.payments_per_year)
    /\ Made
    /\ UNCHANGED inflation_rate

RetirementPlanning ==
    /\ Calling("retirement_planning")
    /\ LET c == Head(queue)
       IN  result' = retirement_planning(inflation_rate, c.current_age, c.retirement_age,
                                         c.current_savings, c.monthly_contribution,
                                         c.expected_return, c.desired_monthly_income)
    /\ Made
    /\ UNCHANGED inflation_rate

CalculateRequiredCapital ==
    /\ Calling("calculate_required_capital")
    /\ LET c == Head(queue)
       IN  result' = calculate_required_capital(c.monthly_income, c.years,
                                                c.annual_return)
    /\ Made
    /\ UNCHANGED inflation_rate

CalculateRequiredMonthlyContribution ==
    /\ Calling("calculate_required_monthly_contribution")
    /\ LET c == Head(queue)
       IN  result' = calculate_required_monthly_contribution(c.current_savings,
                                                             c.target_amount,
                                                             c.annual_return, c.years)
    /\ Made
    /\ UNCHANGED inflation_rate

DividendReinvestment ==
    /\ Calling("dividend_reinvestment")
    /\ LET c == Head(queue)
       IN  result' = dividend_reinvestment(c.initial_investment, c.dividend_yield,
                                           c.years, c.price_appreciation)
    /\ Made
    /\ UNCHANGED inflation_rate

CalculateCagr ==
    /\ Calling("calculate_cagr")
    /\ LET c == Head(queue)
       IN  result' = calculate_cagr(c.beginning_value, c.ending_value, c.years)
    /\ Made
    /\ UNCHANGED inflation_rate

DollarCostAveraging ==
    /\ Calling("dollar_cost_averaging")
    /\ LET c == Head(queue)
       IN  result' = dollar_cost_averaging(c.monthly_investment, c.years,
                                           c.price_volatility)
    /\ Made
    /\ UNCHANGED inflation_rate

RuleOf72 ==
    /\ Calling("rule_of_72")
    /\ result' = [exc |-> "none", val |-> rule_of_72(Head(queue).annual_return)]
    /\ Made
    /\ UNCHANGED inflation_rate

GenerateInvestmentReport ==
    /\ Calling("generate_investment_report")
    /\ LET c == Head(queue)
       IN  result' = generate_investment_report(inflation_rate, c.initial_amount,
                                                c.monthly_contribution,
                                                c.annual_return, c.years)
    /\ Made
    /\ UNCHANGED inflation_rate

Next ==
    \/ CompoundInterest
    \/ CalculateAnnuityPayment
    \/ RetirementPlanning
    \/ CalculateRequiredCapital
    \/ CalculateRequiredMonthlyContribution
    \/ DividendReinvestment
    \/ CalculateCagr
    \/ DollarCostAveraging
    \/ RuleOf72
    \/ GenerateInvestmentReport

Spec == Init /\ [][Next]_vars

\* has the last call, of method op, come back with a result
Returned(op) == call.op = op /\ result.exc = "none"

\* a caller that makes up to MaxCalls calls, one after the other, on one instance
SeqCalls ==
    {[op |-> "compound_interest", principal |-> RatInt(1000), annual_rate |-> r,
      years |-> 1, compounds_per_year |-> 12, monthly_contribution |-> RatInt(100)]
        : r \in {RatZero, Rat(12, 100)}}
    \cup {[op |-> "calculate_annuity_payment", loan_amount |-> RatInt(1000),
           annual_rate |-> Rat(12, 100), years |-> 1, payments_per_year |-> 12]}
    \cup {[op |-> "retirement_planning", current_age |-> life_expectancy - 2,
           retirement_age |-> life_expectancy - 1, current_savings |-> RatInt(1000),
           monthly_contribution |-> RatInt(100), expected_return |-> Rat(6, 5),
           desired_monthly_income |-> RatInt(1000)]}
    \cup {[op |-> "calculate_required_capital", monthly_income |-> RatInt(1000),
           years |-> 1, annual_return |-> Rat(84, 100)]}
    \cup {[op |-> "calculate_required_monthly_contribution",
           current_savings |-> RatInt(1000), target_amount |-> RatInt(5000),
           annual_return |-> Rat(6, 5), years |-> 1]}
    \cup {[op |-> "dividend_reinvestment", initial_investment |-> i,
           dividend_yield |-> Rat(5, 100), years |-> 1, price_appreciation |-> Rat(7, 100)]
            : i \in {RatZero, RatInt(1000)}}
    \cup {[op |-> "calculate_cagr", beginning_value |-> RatInt(1000),
           ending_value |-> RatInt(1210), years |-> 1]}
    \cup {[op |-> "dollar_cost_averaging", monthly_investment |-> RatInt(100),
           years |-> 1, price_volatility |-> <<RatInt(10), RatInt(-10)>>]}
    \cup {[op |-> "rule_of_72", annual_return |-> Rat(12, 100)]}
    \cup {[op |-> "generate_investment_report", initial_amount |-> RatInt(1000),
           monthly_contribution |-> RatInt(100), annual_return |-> Rat(12, 100),
           years |-> 1]}

InitSeq ==
    /\ inflation_rate = default_inflation_rate
    /\ queue \in UNION {[1..n -> SeqCalls] : n \in 1..MaxCalls}
    /\ made = 0
    /\ call = NoCall
    /\ result = [exc |-> "none"]

SpecSeq == InitSeq /\ [][Next]_vars

-----------------------------------------------------------------------------
(* The properties checked.                                                 *)

\* C1: every plan retirement_planning returns reports shortfall =
\* max(0, required_capital - projected savings), never negative; and when the
\* projected savings exceed the required capital the shortfall is 0 and
\* required_monthly_contribution is the monthly_contribution passed in.
C1_ShortfallClamp ==
    Returned("retirement_planning") =>
        LET gap == RatSub(result.required_capital, result.projected_retirement_savings)
        IN  /\ RatEq(result.shortfall, IF gap.s > 0 THEN gap ELSE RatZero)
            /\ result.shortfall.s >= 0
            /\ gap.s < 0 =>
                  /\ result.shortfall.s = 0
                  /\ RatEq(result.required_monthly_contribution,
                           call.monthly_contribution)

C1_Witness ==
    /\ Returned("retirement_planning")
    /\ result.required_capital.s > 0
    /\ RatGt(result.projected_retirement_savings, result.required_capital)
    /\ call.monthly_contribution.s > 0
    /\ result.shortfall.s = 0
    /\ RatEq(result.required_monthly_contribution, call.monthly_contribution)

\* C2: a call of retirement_planning with retirement_age <= current_age or
\* retirement_age > 85 signals InvalidInput and returns no plan.
C2_InvalidAgesRejected ==
    (/\ call.op = "retirement_planning"
     /\ \/ call.retirement_age <= call.current_age
        \/ call.retirement_age > life_expectancy)
    => result.exc = "InvalidInput"

\* C3: dollar_cost_averaging records 12*years months; the price of each month is
\* the price of the month before (100 before the first) times
\* (1 + price_volatility[m]/100), the change being 0 past the end of the list,
\* where the price stays at the previous month's; with [10, -10] the price of
\* month 2 is 99.
C3_PriceCompounds ==
    Returned("dollar_cost_averaging") =>
        LET steps == result.monthly_breakdown
            vol   == call.price_volatility
        IN  /\ Len(steps) = 12 * call.years
            /\ \A m \in 1..Len(steps) :
                  LET before == IF m = 1 THEN RatInt(100) ELSE steps[m - 1].price
                  IN  /\ m <= Len(vol) =>
                            RatEq(steps[m].price,
                                  RatMul(before,
                                         RatAdd(One, RatDiv(vol[m], RatInt(100)))))
                      /\ m > Len(vol) => RatEq(steps[m].price, before)
            /\ (vol = <<RatInt(10), RatInt(-10)>> /\ call.years >= 1) =>
                  RatEq(steps[2].price, RatInt(99))

C3_Witness ==
    /\ Returned("dollar_cost_averaging")
    /\ call.price_volatility = <<RatInt(10), RatInt(-10)>>
    /\ Len(result.monthly_breakdown) = 12
    /\ RatEq(result.monthly_breakdown[1].price, RatInt(110))
    /\ RatEq(result.monthly_breakdown[2].price, RatInt(99))
    /\ RatEq(result.monthly_breakdown[12].price, RatInt(99))

\* the dividends of the steps k..Len(steps), added from the last one down
RECURSIVE DividendsFrom(_, _)
DividendsFrom(steps, k) ==
    IF k > Len(steps) THEN RatZero
    ELSE RatAdd(steps[k].dividends, DividendsFrom(steps, k + 1))

\* C4: dividend_reinvestment records one step per year 1..years, in order; the
\* dividends of year k are yield times the value at the end of year k-1 (the
\* initial investment for k = 1), its value is (that value + the dividends) *
\* (1 + price_appreciation), and total_dividends is the sum of the steps'
\* dividends; with yield 0.05, appreciation 0.07 and 1000 invested the value of
\* year 1 is 1000 * 1.05 * 1.07.
C4_ReinvestThenAppreciate ==
    Returned("dividend_reinvestment") =>
        LET steps == result.yearly_breakdown
        IN  /\ Len(steps) = call.years
            /\ \A k \in 1..Len(steps) :
                  LET before == IF k = 1 THEN call.initial_investment
                                ELSE steps[k - 1].value
                  IN  /\ steps[k].year = k
                      /\ RatEq(steps[k].dividends, RatMul(call.dividend_yield, before))
                      /\ RatEq(steps[k].value,
                               RatMul(RatAdd(before, steps[k].dividends),
                                      RatAdd(One, call.price_appreciation)))
            /\ RatEq(result.total_dividends, DividendsFrom(steps, 1))
            /\ (/\ RatEq(call.dividend_yield, Rat(5, 100))
                /\ RatEq(call.price_appreciation, Rat(7, 100))
                /\ RatEq(call.initial_investment, RatInt(1000))
                /\ call.years >= 1)
               => RatEq(steps[1].value,
                        RatMul(RatMul(RatInt(1000), Rat(105, 100)), Rat(107, 100)))

C4_Witness ==
    /\ Returned("dividend_reinvestment")
    /\ RatEq(call.dividend_yield, Rat(5, 100))
    /\ RatEq(call.price_appreciation, Rat(7, 100))
    /\ RatEq(call.initial_investment, RatInt(1000))
    /\ call.years = 2
    /\ RatEq(result.yearly_breakdown[1].value, Rat(11235, 10))
    /\ RatEq(result.yearly_breakdown[2].dividends, Rat(56175, 1000))

C6_ZeroBaseGivesZero ==
    /\ (Returned("compound_interest") /\ result.total_invested.s = 0)
       => result.return_percentage.s = 0
    /\ (Returned("dollar_cost_averaging") /\ result.total_invested.s = 0)
       => result.return_percentage.s = 0
    /\ (Returned("dollar_cost_averaging") /\ result.total_shares.s = 0)
       => result.average_price.s = 0
    /\ (call.op = "calculate_cagr" /\ (call.beginning_value.s = 0 \/ call.years = 0))
       => (result.exc = "none" /\ result.val = RatZero)
    /\ (call.op = "dividend_reinvestment" /\ call.initial_investment.s = 0)
       => (/\ result.exc = "none"
           /\ result.return_percentage = RatZero
           /\ result.cagr = RatZero)

\* the future value of contributions c over n periods: compounded at a period
\* rate r > 0, and the plain sum c * n at every other rate
AnnuityFutureValue(c, r, n) ==
    IF r.s > 0 THEN RatMul(c, RatDiv(RatSub(RatPowNat(RatAdd(One, r), n), One), r))
    ELSE RatMul(c, RatInt(n))

FutureValueAt(r2) ==
    compound_interest(inflation_rate, call.principal, r2, call.years,
                      call.compounds_per_year, call.monthly_contribution).future_value

OnFreshInstance(c) ==
    CASE c.op = "compound_interest" ->
            compound_interest(default_inflation_rate, c.principal, c.annual_rate,
                              c.years, c.compounds_per_year, c.monthly_contribution)
      [] c.op = "calculate_annuity_payment" ->
            calculate_annuity_payment(c.loan_amount, c.annual_rate, c.years,
                                      c.payments_per_year)
      [] c.op = "retirement_planning" ->
            retirement_planning(default_inflation_rate, c.current_age, c.retirement_age,
                                c.current_savings, c.monthly_contribution,
                                c.expected_return, c.desired_monthly_income)
      [] c.op = "calculate_required_capital" ->
            calculate_required_capital(c.monthly_income, c.years, c.annual_return)
      [] c.op = "calculate_required_monthly_contribution" ->
            calculate_required_monthly_contribution(c.current_savings, c.target_amount,
                                                    c.annual_return, c.years)
      [] c.op = "dividend_reinvestment" ->
            dividend_reinvestment(c.initial_investment, c.dividend_yield, c.years,
                                  c.price_appreciation)
      [] c.op = "calculate_cagr" ->
            calculate_cagr(c.beginning_value, c.ending_value, c.years)
      [] c.op = "dollar_cost_averaging" ->
            dollar_cost_averaging(c.monthly_investment, c.years, c.price_volatility)
      [] c.op = "rule_of_72" -> [exc |-> "none", val |-> rule_of_72(c.annual_return)]
      [] c.op = "generate_investment_report" ->
            generate_investment_report(default_inflation_rate, c.initial_amount,
                                       c.monthly_contribution, c.annual_return, c.years)

SolverInverts ==
    (/\ call.op = "calculate_required_monthly_contribution"
     /\ call.annual_return.s >= 0
     /\ call.years >= 1)
    => /\ result.exc = "none"
       /\ IF RatGe(RatMul(call.current_savings,
                          RatPowNat(RatAdd(One, RatDiv(call.annual_return,
                                                        RatInt(12))),
                                    12 * call.years)),
                   call.target_amount)
          THEN result.val.s = 0
          ELSE RatEq(compound_interest(inflation_rate, call.current_savings,
                                       call.annual_return, call.years, 12,
                                       result.val).future_value,
                     call.target_amount)

\* C10, as stated: for annual_return >= 0 and years >= 1,
\* calculate_required_monthly_contribution is the inverse of the projection; and
\* whenever retirement_planning (expected_return >= 0) reports a shortfall > 0,
\* its required_monthly_contribution is greater than the monthly_contribution
\* passed in and, used in its place, projects savings equal to required_capital.
C10_ShortfallAlwaysClosed ==
    /\ SolverInverts
    /\ (/\ Returned("retirement_planning")
        /\ result.shortfall.s > 0
        /\ call.expected_return.s >= 0)
       => /\ RatGt(result.required_monthly_contribution, call.monthly_contribution)
          /\ RatEq(compound_interest(inflation_rate, call.current_savings,
                                     call.expected_return, result.years_to_retirement,
                                     12, result.required_monthly_contribution
                                    ).future_value,
                   result.required_capital)

\* C10, on the plans the solver's own scope covers: the same, for the plans of
\* retirement_planning with at least a year to retirement (the years >= 1 of the
\* solver call the plan makes).
C10_SolverInvertsProjection ==
    /\ SolverInverts
    /\ (/\ Returned("retirement_planning")
        /\ result.shortfall.s > 0
        /\ call.expected_return.s >= 0
        /\ result.years_to_retirement >= 1)
       => /\ RatGt(result.required_monthly_contribution, call.monthly_contribution)
          /\ RatEq(compound_interest(inflation_rate, call.current_savings,
                                     call.expected_return, result.years_to_retirement,
                                     12, result.required_monthly_contribution
                                    ).future_value,
                   result.required_capital)

C10_Witness ==
    /\ Returned("retirement_planning")
    /\ result.shortfall.s > 0
    /\ call.expected_return.s > 0
    /\ call.current_savings.s > 0
    /\ call.monthly_contribution.s > 0
    /\ result.years_to_retirement = 2
    /\ RatGt(result.required_monthly_contribution, call.monthly_contribution)

=============================================================================
